---- MODULE Spec2Model ----
(***************************************************************************)
(* Model of main.py of the cold-email generator: the text-extraction       *)
(* heuristic parse_email and the POST /generate/ handler generate_emails.  *)
(*                                                                         *)
(* Texts are sequences of tokens.  A token is either a single character    *)
(* (":", ",", " ", "\n", and "x" for any other non-blank character) or one *)
(* of the words the regular expressions of parse_email look for, written   *)
(* in one letter case ("Subject", "Body", "best", "Thanks").  Lower folds  *)
(* the case of a token the way the (?i) / re.I flag does.                  *)
(***************************************************************************)
EXTENDS Integers, Sequences, FiniteSets, TLC

\* ------------------------------------------------------------------ bounds
MaxLen == 5
MaxSubjLen == 2
MaxBodyLen == 3
MaxRows == 3

\* ------------------------------------------------------------- characters
NL == "\n"
SP == " "

Alphabet == {"Subject", "Body", "best", "Thanks", ":", ",", SP, NL, "x"}

\* case folding applied by the (?i) flag of the four patterns
Lower(c) ==
    CASE c = "Subject" -> "subject"
      [] c = "Body"    -> "body"
      [] c = "Thanks"  -> "thanks"
      [] OTHER         -> c

\* the regex class \s and the characters str.strip() removes
IsSpace(c) == c \in {SP, NL}

\* the alternation (?:best|thanks|regards|sincerely|cheers)
SignatureWords == {"best", "thanks", "regards", "sincerely", "cheers"}

Min(S) == CHOOSE m \in S : \A n \in S : m <= n
Max(S) == CHOOSE m \in S : \A n \in S : m >= n

\* t[a..b], empty when a > b
Slice(t, a, b) == [k \in 1..(b - a + 1) |-> t[a + k - 1]]

\* t without positions a..b
Without(t, a, b) == SubSeq(t, 1, a - 1) \o SubSeq(t, b + 1, Len(t))

\* str.strip()
Strip(t) ==
    LET ns == {k \in 1..Len(t) : ~IsSpace(t[k])}
    IN  IF ns = {} THEN <<>> ELSE Slice(t, Min(ns), Max(ns))

\* first position >= k that holds no whitespace (Len(t)+1 at the end)
SkipSpace(t, k) ==
    Min({m \in k..(Len(t) + 1) : m = Len(t) + 1 \/ ~IsSpace(t[m])})

\* last position of the line that holds position k: what a greedy .+ or .*
\* reaches from k without re.S
EndOfLine(t, k) ==
    Min({m \in k..Len(t) : m = Len(t) \/ t[m + 1] = NL})

\* "word\s*:" at position i: the position of the colon, 0 if no match
LabelColon(t, i, word) ==
    IF i <= Len(t) /\ Lower(t[i]) = word
    THEN LET c == SkipSpace(t, i + 1)
         IN  IF c <= Len(t) /\ t[c] = ":" THEN c ELSE 0
    ELSE 0

\* the search with the colon left optional, r"(?i)subject\s*:?\s*(.+)"
SearchAt_NoColon(t, i) ==
    LET c == IF LabelColon(t, i, "subject") # 0 THEN LabelColon(t, i, "subject")
             ELSE IF i <= Len(t) /\ Lower(t[i]) = "subject" THEN i ELSE 0
        G == IF c = 0 THEN {}
             ELSE {g \in (c + 1)..Len(t) :
                       /\ t[g] # NL
                       /\ \A m \in (c + 1)..(g - 1) : IsSpace(t[m])}
    IN  IF G = {} THEN 0 ELSE Max(G)

\* re.search(r"(?i)subject\s*:\s*(.+)", text), line 63.  After the colon a
\* greedy \s* is followed by (.+): the group starts at the last position g
\* that is reached over whitespace only and holds a character other than a
\* newline (the engine backs \s* off until .+ can match).  A match is the
\* pair <<start, g>>.
SearchAt(t, i) ==
    LET c == LabelColon(t, i, "subject")
        G == IF c = 0 THEN {}
             ELSE {g \in (c + 1)..Len(t) :
                       /\ t[g] # NL
                       /\ \A m \in (c + 1)..(g - 1) : IsSpace(t[m])}
    IN  IF G = {} THEN 0 ELSE Max(G)

SubjectSearch(t) ==
    LET I == {i \in 1..Len(t) : SearchAt(t, i) # 0}
    IN  IF I = {} THEN <<0, 0>> ELSE <<Min(I), SearchAt(t, Min(I))>>

\* one match of r"(?i)subject\s*:.+\n?" at position i: the position of its
\* last character, 0 if no match.  ".+" needs a character other than a
\* newline right after the colon.
RemoveMatchEnd(t, i) ==
    LET c == LabelColon(t, i, "subject")
    IN  IF c = 0 \/ c + 1 > Len(t) \/ t[c + 1] = NL THEN 0
        ELSE LET e == EndOfLine(t, c + 1)
             IN  IF e + 1 <= Len(t) /\ t[e + 1] = NL THEN e + 1 ELSE e

\* re.sub(r"(?i)subject\s*:.+\n?", "", text), line 66: every match, left to
\* right, is deleted
RECURSIVE SubFrom(_, _)
SubFrom(t, i) ==
    IF i > Len(t) THEN <<>>
    ELSE LET e == RemoveMatchEnd(t, i)
         IN  IF e = 0 THEN <<t[i]>> \o SubFrom(t, i + 1)
             ELSE SubFrom(t, e + 1)

RemoveSubjectLines(t) == SubFrom(t, 1)

\* re.sub(r"(?i)^body\s*:\s*", "", body).strip(), line 69
StripBodyLabel(t) ==
    LET c == LabelColon(t, 1, "body")
    IN  Strip(IF c = 0 THEN t ELSE Slice(t, SkipSpace(t, c + 1), Len(t)))

\* positions where r"\n(?:best|...)[\s,].*" (re.I | re.S) matches
SignatureAt(t) ==
    {p \in 1..(Len(t) - 2) :
        /\ t[p] = NL
        /\ Lower(t[p + 1]) \in SignatureWords
        /\ (IsSpace(t[p + 2]) \/ t[p + 2] = ",")}

\* the substitution without re.S: ".*" stops at the end of the signature
\* line and the lines after it stay
StripSignature_NoDotAll(t) ==
    Strip(IF SignatureAt(t) = {} THEN t
          ELSE LET p == Min(SignatureAt(t))
               IN  Without(t, p, EndOfLine(t, p + 1)))

\* re.sub(r"\n(?:best|...)[\s,].*", "", body, flags=re.I | re.S).strip(),
\* line 72: with re.S the first match runs to the end of the text
StripSignature(t) ==
    Strip(IF SignatureAt(t) = {} THEN t
          ELSE Slice(t, 1, Min(SignatureAt(t)) - 1))

\* the body before signatures are removed (lines 60-69)
WorkingBody(t) ==
    LET m == SubjectSearch(t)
    IN  StripBodyLabel(IF m[1] = 0 THEN t ELSE Strip(RemoveSubjectLines(t)))

\* parse_email(text) -> (subject, body)
parse_email(t) ==
    LET m == SubjectSearch(t)
    IN  <<IF m[1] = 0 THEN <<>>
          ELSE Strip(Slice(t, m[2], EndOfLine(t, m[2]))),
          StripSignature(WorkingBody(t))>>

\* ----------------------------------------------------------- text inputs
Strings(A, n) == UNION {[1..k -> A] : k \in 0..n}

\* the completions of the spec's examples
SubjectExample == <<"Subject", ":", SP, "x", NL, NL, "Body", ":", NL, "x">>
SignatureExample == <<"x", NL, NL, "best", ",", NL, "x">>
NoHeaderExample == <<"x", SP, "x">>
TwoSubjectsExample ==
    <<"Subject", ":", SP, "x", NL, "x", NL, "x", SP, "Subject", ":", SP, "x", NL, "x">>

Examples ==
    {SubjectExample, SignatureExample, NoHeaderExample, TwoSubjectsExample}

\* the format the system prompt asks for (lines 44-46)
Format(s, b) ==
    <<"Subject", ":", SP>> \o s \o <<NL, NL, "Body", ":", NL>> \o b

\* ------------------------------------------------------- uploaded tables
\* a cell as pandas reads it: a str, an int, or NaN for an empty cell
Cell(type, val) == [type |-> type, val |-> val]
NaN == Cell("nan", <<>>)

\* str(value), what df.astype(str) does to a cell (line 106)
Str(c) == IF c.type = "nan" THEN <<"n", "a", "n">> ELSE c.val

CellValues == {Cell("int", <<"7">>), NaN}

Headers ==
    {<<"name">>, <<"name", "company">>, <<"name", "email">>,
     <<"subject", "name">>, <<"combined_profile", "name">>}

Table(cols, rows) == [cols |-> cols, rows |-> rows]
NoTable == Table(<<>>, <<>>)

\* the tables pd.read_excel can return: a header and 0..n rows
Tables(n) ==
    UNION {{Table(h, r) : r \in UNION {[1..k -> [1..Len(h) -> CellValues]] : k \in 0..n}} :
              h \in Headers}

\* file names: report.csv, leads.xlsx, leads.xls, and an upper-case extension
CsvName == <<"r", ".", "c", "s", "v">>
XlsxName == <<"l", ".", "x", "l", "s", "x">>
XlsName == <<"l", ".", "x", "l", "s">>
UpperName == <<"l", ".", "X", "L", "S", "X">>
BareName == <<"x", "l", "s">>
Filenames == {CsvName, XlsxName, XlsName, UpperName, BareName}

\* the service responses a call can get
PaddedExample == <<NL>> \o NoHeaderExample \o <<SP>>
Responses == {SubjectExample, PaddedExample}

VARIABLES ppc, subj_in, body_in, raw, text, working, subject, body,
          pc, filename, parseable, upload, fileRead, df, calls, results,
          status, detail, output

pvars == <<ppc, subj_in, body_in, raw, text, working, subject, body>>
hvars == <<pc, filename, parseable, upload, fileRead, df, calls, results,
           status, detail, output>>
vars == <<pvars, hvars>>

\* no request in progress
HandlerIdle ==
    /\ pc = "idle"
    /\ filename = <<>>
    /\ parseable = FALSE
    /\ upload = NoTable
    /\ fileRead = FALSE
    /\ df = NoTable
    /\ calls = <<>>
    /\ results = <<>>
    /\ status = 0
    /\ detail = ""
    /\ output = NoTable

\* no text being parsed on its own
ParseIdle ==
    /\ ppc = "idle"
    /\ subj_in = <<>>
    /\ body_in = <<>>
    /\ raw = <<>>
    /\ text = <<>>
    /\ working = <<>>
    /\ subject = <<>>
    /\ body = <<>>

\* generate_cold_email's return value for a service response (line 52)
completion(r) == Strip(r)

\* a service response that follows the requested format
Compose ==
    /\ ppc = "compose"
    /\ raw' = Format(subj_in, body_in)
    /\ ppc' = "respond"
    /\ UNCHANGED <<subj_in, body_in, text, working, subject, body>>
    /\ UNCHANGED hvars

\* generate_cold_email returns the trimmed response
Respond ==
    /\ ppc = "respond"
    /\ text' = completion(raw)
    /\ ppc' = "input"
    /\ UNCHANGED <<subj_in, body_in, raw, working, subject, body>>
    /\ UNCHANGED hvars

\* parse_email applied to the completion
Parse ==
    /\ ppc = "input"
    /\ working' = WorkingBody(text)
    /\ subject' = parse_email(text)[1]
    /\ body' = parse_email(text)[2]
    /\ ppc' = "parsed"
    /\ UNCHANGED <<subj_in, body_in, raw, text>>
    /\ UNCHANGED hvars

ParseInit ==
    /\ ppc = "respond"
    /\ raw \in Strings(Alphabet, MaxLen) \cup Examples
    /\ subj_in = <<>>
    /\ body_in = <<>>
    /\ text = <<>>
    /\ working = <<>>
    /\ subject = <<>>
    /\ body = <<>>
    /\ HandlerIdle

ParseNext == Respond \/ Parse

ParseSpec == ParseInit /\ [][ParseNext]_vars

FormatInit ==
    /\ ppc = "compose"
    /\ subj_in \in Strings(Alphabet \ {NL}, MaxSubjLen) \ {<<>>}
    /\ body_in \in Strings(Alphabet, MaxBodyLen)
    /\ raw = <<>>
    /\ text = <<>>
    /\ working = <<>>
    /\ subject = <<>>
    /\ body = <<>>
    /\ HandlerIdle

FormatNext == Compose \/ Respond \/ Parse

FormatSpec == FormatInit /\ [][FormatNext]_vars

\* ------------------------------------------------- POST /generate/
\* str.endswith
EndsWith(f, suffix) ==
    /\ Len(suffix) <= Len(f)
    /\ SubSeq(f, Len(f) - Len(suffix) + 1, Len(f)) = suffix

\* the test of line 95 made on the lower-cased name
IsExcelName_IgnoreCase(f) ==
    LET low(c) == CASE c = "X" -> "x" [] c = "L" -> "l" [] c = "S" -> "s" [] OTHER -> c
        g == [k \in 1..Len(f) |-> low(f[k])]
    IN  EndsWith(g, <<".", "x", "l", "s", "x">>) \/ EndsWith(g, <<".", "x", "l", "s">>)

\* the test of line 95
IsExcelName(f) ==
    EndsWith(f, <<".", "x", "l", "s", "x">>) \/ EndsWith(f, <<".", "x", "l", "s">>)

\* DataFrame.empty: no rows or no columns
IsEmpty(d) == Len(d.rows) = 0 \/ Len(d.cols) = 0

ColumnIndex(d, name) ==
    IF \E j \in 1..Len(d.cols) : d.cols[j] = name
    THEN CHOOSE j \in 1..Len(d.cols) : d.cols[j] = name
    ELSE 0

\* df[name] = values: an existing column of that name is overwritten in
\* place, otherwise the column is added at the end
SetColumn(d, name, values) ==
    LET j == ColumnIndex(d, name)
    IN  IF j # 0
        THEN Table(d.cols, [i \in 1..Len(d.rows) |-> [d.rows[i] EXCEPT ![j] = values[i]]])
        ELSE Table(Append(d.cols, name),
                   [i \in 1..Len(d.rows) |-> Append(d.rows[i], values[i])])

\* df[name]
Column(d, name) == [i \in 1..Len(d.rows) |-> d.rows[i][ColumnIndex(d, name)]]

\* df.drop(columns=[name], inplace=True)
DropColumn(d, name) ==
    LET j == ColumnIndex(d, name)
    IN  Table(Without(d.cols, j, j), [i \in 1..Len(d.rows) |-> Without(d.rows[i], j, j)])

\* " | ".join(values)
RECURSIVE Join(_)
Join(texts) ==
    IF Len(texts) = 0 THEN <<>>
    ELSE IF Len(texts) = 1 THEN texts[1]
    ELSE texts[1] \o <<SP, "|", SP>> \o Join(Tail(texts))

\* df.astype(str).apply(lambda row: " | ".join(row.values), axis=1), line 106
CombinedProfiles(d) ==
    [i \in 1..Len(d.rows) |->
        Cell("str", Join([j \in 1..Len(d.cols) |-> Str(d.rows[i][j])]))]

\* the assembly with the email column filled in reverse row order
Assembled_Reversed(d, res) ==
    LET parsed == [i \in 1..Len(res) |-> parse_email(res[i])]
        d1 == SetColumn(d, "subject", [i \in 1..Len(res) |-> Cell("str", parsed[i][1])])
        d2 == SetColumn(d1, "email",
                        [i \in 1..Len(res) |-> Cell("str", parsed[Len(res) + 1 - i][2])])
    IN  DropColumn(d2, "combined_profile")

\* lines 110-116: parse every completion, set the two columns, drop the
\* combined profile
Assembled(d, res) ==
    LET parsed == [i \in 1..Len(res) |-> parse_email(res[i])]
        d1 == SetColumn(d, "subject", [i \in 1..Len(res) |-> Cell("str", parsed[i][1])])
        d2 == SetColumn(d1, "email", [i \in 1..Len(res) |-> Cell("str", parsed[i][2])])
    IN  DropColumn(d2, "combined_profile")

\* one entry of the log of generation calls
Call(row, profile, ok, response) ==
    [row |-> row, profile |-> profile, ok |-> ok, response |-> response]

\* line 95-96: the file name is tested first
CheckExtension ==
    /\ pc = "start"
    /\ IF IsExcelName(filename)
       THEN /\ pc' = "read"
            /\ UNCHANGED <<status, detail>>
       ELSE /\ pc' = "done"
            /\ status' = 400
            /\ detail' = "Only Excel files (.xlsx, .xls) are supported"
    /\ UNCHANGED <<filename, parseable, upload, fileRead, df, calls, results, output>>
    /\ UNCHANGED pvars

\* lines 99-106: read and decode the file, refuse an empty table, add the
\* combined profile.  An exception of pd.read_excel reaches the catch-all of
\* lines 131-132.
ReadExcel ==
    /\ pc = "read"
    /\ fileRead' = TRUE
    /\ IF ~parseable
       THEN /\ pc' = "done"
            /\ status' = 500
            /\ detail' = "Server error"
            /\ UNCHANGED df
       ELSE IF IsEmpty(upload)
       THEN /\ pc' = "done"
            /\ status' = 400
            /\ detail' = "Uploaded Excel file is empty"
            /\ df' = upload
       ELSE /\ pc' = "generate"
            /\ df' = SetColumn(upload, "combined_profile", CombinedProfiles(upload))
            /\ UNCHANGED <<status, detail>>
    /\ UNCHANGED <<filename, parseable, upload, calls, results, output>>
    /\ UNCHANGED pvars

\* line 109, one element of the apply: generate_cold_email returns the
\* trimmed response of the service
GenerateOk ==
    /\ pc = "generate"
    /\ Len(results) < Len(df.rows)
    /\ \E r \in Responses :
          LET i == Len(results) + 1
              profile == Column(df, "combined_profile")[i].val
          IN  /\ calls' = Append(calls, Call(i, profile, TRUE, r))
              /\ results' = Append(results, completion(r))
    /\ UNCHANGED <<pc, filename, parseable, upload, fileRead, df, status, detail, output>>
    /\ UNCHANGED pvars

\* the HTTPException a failed call ends in (lines 53-54)
GenerationError == [code |-> 500, detail |-> "OpenAI error"]

\* the handler without lines 129-130: the catch-all wraps the exception
Reraise_Wrapped(e) == [code |-> 500, detail |-> "Server error"]

\* lines 129-130: an HTTPException leaves the handler as it is
Reraise(e) == e

\* a failed call that is swallowed: the row gets an empty completion and the
\* apply goes on
GenerateFail_Continue ==
    /\ pc = "generate"
    /\ Len(results) < Len(df.rows)
    /\ LET i == Len(results) + 1
           profile == Column(df, "combined_profile")[i].val
       IN  calls' = Append(calls, Call(i, profile, FALSE, <<>>))
    /\ results' = Append(results, <<>>)
    /\ UNCHANGED <<pc, filename, parseable, upload, fileRead, df, status, detail, output>>
    /\ UNCHANGED pvars

\* line 109, the service call fails: generate_cold_email raises, the apply
\* stops and the exception leaves the handler
GenerateFail ==
    /\ pc = "generate"
    /\ Len(results) < Len(df.rows)
    /\ LET i == Len(results) + 1
           profile == Column(df, "combined_profile")[i].val
       IN  calls' = Append(calls, Call(i, profile, FALSE, <<>>))
    /\ status' = Reraise(GenerationError).code
    /\ detail' = Reraise(GenerationError).detail
    /\ pc' = "done"
    /\ UNCHANGED <<filename, parseable, upload, fileRead, df, results, output>>
    /\ UNCHANGED pvars

\* lines 110-127: all rows are generated; parse, assemble and send the table
Respond200 ==
    /\ pc = "generate"
    /\ Len(results) = Len(df.rows)
    /\ df' = Assembled(df, results)
    /\ output' = df'
    /\ status' = 200
    /\ pc' = "done"
    /\ UNCHANGED <<filename, parseable, upload, fileRead, calls, results, detail>>
    /\ UNCHANGED pvars

Init ==
    /\ pc = "start"
    /\ filename \in Filenames
    /\ parseable \in BOOLEAN
    /\ upload \in IF parseable THEN Tables(MaxRows) ELSE {NoTable}
    /\ fileRead = FALSE
    /\ df = NoTable
    /\ calls = <<>>
    /\ results = <<>>
    /\ status = 0
    /\ detail = ""
    /\ output = NoTable
    /\ ParseIdle

Next == CheckExtension \/ ReadExcel \/ GenerateOk \/ GenerateFail \/ Respond200

Spec == Init /\ [][Next]_vars

\* ---------------------------------------------------------------- labels
\* "word" directly followed by a colon
LiteralLabelAt(t, i, word) ==
    i + 1 <= Len(t) /\ Lower(t[i]) = word /\ t[i + 1] = ":"

HasLiteralLabel(t, word) == \E i \in 1..Len(t) : LiteralLabelAt(t, i, word)

\* "word", optional whitespace, colon
LabelAt(t, i, word) ==
    /\ Lower(t[i]) = word
    /\ \E c \in (i + 1)..Len(t) :
          t[c] = ":" /\ \A m \in (i + 1)..(c - 1) : t[m] \in {SP, NL}

HasLabel(t, word) == \E i \in 1..Len(t) : LabelAt(t, i, word)

\* line breaks followed by a signature word and then whitespace or a comma
SignatureBreaks(t) ==
    {p \in 1..Len(t) :
        /\ p + 2 <= Len(t)
        /\ t[p] = NL
        /\ Lower(t[p + 1]) \in {"best", "thanks", "regards", "sincerely", "cheers"}
        /\ t[p + 2] \in {SP, NL, ","}}

\* some line, the first included, begins with a signature word and then
\* whitespace or a comma
HasSignatureLine(t) == SignatureBreaks(<<NL>> \o t) # {}

\* position of the first character of the line that holds position k
StartOfLine(t, k) ==
    Max({m \in 1..k : m = 1 \/ t[m - 1] = NL})

\* ------------------------------------------------------------------- C5
\* C5: for a response in the requested format, "Subject: " + s + "\n\nBody:\n"
\* + b, with s a non-empty single line and b free of subject labels and of
\* signature lines after its first line, parse_email returns
\* (trim(s), trim(b)).
C5_FormatRoundTrip ==
    (/\ ppc = "parsed"
     /\ ~HasLabel(body_in, "subject")
     /\ SignatureBreaks(body_in) = {})
        => (subject = Strip(subj_in) /\ body = Strip(body_in))

\* the same round trip for subjects that hold a non-blank character
C5_NonBlankSubjectRoundTrip ==
    (/\ ppc = "parsed"
     /\ Strip(subj_in) # <<>>
     /\ ~HasLabel(body_in, "subject")
     /\ SignatureBreaks(body_in) = {})
        => (subject = Strip(subj_in) /\ body = Strip(body_in))

\* ------------------------------------------------------------------- C6
\* C6 as stated: a completion without the text "subject:" (any letter case)
\* parses to an empty subject, and to the trimmed completion as body when it
\* neither starts with "body:" nor holds a signature line.
C6_NoLiteralSubjectLabel ==
    (ppc = "parsed" /\ ~HasLiteralLabel(text, "subject"))
        => /\ subject = <<>>
           /\ (~LiteralLabelAt(text, 1, "body") /\ ~HasSignatureLine(text))
                 => body = Strip(text)

\* C6 amended: a completion in which the word "subject" is nowhere followed,
\* after optional whitespace, by a colon parses to an empty subject; no line
\* is taken out of it, and when it neither starts with such a "body" label
\* nor holds a signature line the body is the trimmed completion.
C6_NoSubjectLabel ==
    (ppc = "parsed" /\ ~HasLabel(text, "subject"))
        => /\ subject = <<>>
           /\ working = Strip(IF Len(text) > 0 /\ LabelAt(text, 1, "body")
                              THEN SubSeq(text, 1 + Min({c \in 2..Len(text) : text[c] = ":"}), Len(text))
                              ELSE text)
           /\ (~(Len(text) > 0 /\ LabelAt(text, 1, "body")) /\ ~HasSignatureLine(text))
                 => body = Strip(text)

C6_Witness ==
    /\ ppc = "parsed"
    /\ ~HasLabel(text, "subject")
    /\ \E i \in 1..Len(text) : text[i] = "Subject"
    /\ \E i \in 1..Len(text) : text[i] = ":"
    /\ subject = <<>>
    /\ body = text

\* ------------------------------------------------------------------- C7
\* C7: the returned body is the working body cut at the first line break
\* that is followed by a signature word and then whitespace or a comma, and
\* trimmed; it holds no such line break itself; a working body without one
\* is returned as it is, trimmed.
C7_SignatureTruncation ==
    ppc = "parsed" =>
        LET B == SignatureBreaks(working)
        IN  /\ SignatureBreaks(body) = {}
            /\ B = {} => body = Strip(working)
            /\ B # {} => body = Strip(SubSeq(working, 1, Min(B) - 1))

C7_Witness ==
    /\ ppc = "parsed"
    /\ SignatureBreaks(working) # {}
    /\ Len(working) > Min(SignatureBreaks(working)) + 2
    /\ body # <<>>
    /\ Len(body) < Min(SignatureBreaks(working))

\* ------------------------------------------------------------------ C10
\* C10: when the completion holds a subject label, the subject is the
\* trimmed rest of the first line that holds one, and the body is derived
\* from the completion with exactly that line taken out.
C10_FirstSubjectLineOnly ==
    (ppc = "parsed" /\ HasLabel(text, "subject")) =>
        LET i == Min({k \in 1..Len(text) : LabelAt(text, k, "subject")})
            c == Min({k \in (i + 1)..Len(text) : text[k] = ":"})
            e == IF c = Len(text) \/ text[c + 1] = NL THEN c ELSE EndOfLine(text, c + 1)
            a == StartOfLine(text, i)
            b == IF e < Len(text) THEN e + 1 ELSE e
        IN  /\ subject = Strip(SubSeq(text, c + 1, e))
            /\ body = StripSignature(StripBodyLabel(Strip(Without(text, a, b))))

\* ------------------------------------------------------------------- C1
\* C1: a successful request on a valid table of N >= 1 rows returns N rows,
\* and row i carries the subject and email parsed from the completion that
\* the call for row i's combined profile returned.
C1_RowsAligned ==
    status = 200 =>
        LET n == Len(upload.rows)
            s == ColumnIndex(output, "subject")
            e == ColumnIndex(output, "email")
        IN  /\ n >= 1
            /\ Len(output.rows) = n
            /\ Len(calls) = n
            /\ s # 0 /\ e # 0
            /\ \A i \in 1..n :
                  /\ calls[i].row = i
                  /\ calls[i].profile =
                        Join([j \in 1..Len(upload.cols) |-> Str(upload.rows[i][j])])
                  /\ output.rows[i][s].val = parse_email(Strip(calls[i].response))[1]
                  /\ output.rows[i][e].val = parse_email(Strip(calls[i].response))[2]

C1_Witness ==
    /\ status = 200
    /\ Len(output.rows) = 3
    /\ upload.rows[1] # upload.rows[2]
    /\ calls[1].response # calls[2].response
    /\ calls[2].response # calls[3].response

\* ------------------------------------------------------------------- C2
\* C2: a 400 answer is never preceded by a generation call; a file name
\* that ends in neither ".xlsx" nor ".xls" is answered 400 before the file is
\* read, and a table of zero rows is answered 400 before the first call.
C2_ValidationBeforeCalls ==
    /\ status = 400 => calls = <<>>
    /\ (pc = "done" /\ filename \notin {XlsxName, XlsName})
          => (status = 400 /\ ~fileRead /\ calls = <<>>)
    /\ (pc = "done" /\ filename \in {XlsxName, XlsName} /\ parseable /\ Len(upload.rows) = 0)
          => (status = 400 /\ calls = <<>>)

C2_Witness ==
    /\ pc = "done"
    /\ status = 400
    /\ filename = XlsxName
    /\ fileRead
    /\ Len(upload.rows) = 0
    /\ detail = "Uploaded Excel file is empty"

\* ------------------------------------------------------------------- C3
\* C3: when the call for row k fails the request ends with status 500 and
\* the error of generate_cold_email, unchanged, and no table is returned.
C3_AllOrNothing ==
    (calls # <<>> /\ ~calls[Len(calls)].ok)
        => /\ pc = "done"
           /\ status = 500
           /\ detail = "OpenAI error"
           /\ output = NoTable

C3_Witness ==
    /\ Len(upload.rows) = 3
    /\ Len(calls) = 2
    /\ calls[1].ok
    /\ ~calls[2].ok
    /\ Len(results) = 1
    /\ status = 500

\* ------------------------------------------------------------------- C4
\* C4: a file with an accepted name whose bytes are no spreadsheet is
\* answered with status 400, and no generation call is made.
C4_MalformedIs400 ==
    (pc = "done" /\ filename \in {XlsxName, XlsName} /\ ~parseable)
        => (status = 400 /\ calls = <<>>)

\* ------------------------------------------------------------------- C8
\* C8: the columns of the returned table are the uploaded columns, in
\* order and with their cells unchanged, followed by "subject" and "email",
\* whatever the uploaded columns are called.
C8_ColumnsKept ==
    status = 200 =>
        /\ output.cols = upload.cols \o <<"subject", "email">>
        /\ \A i \in 1..Len(upload.rows) : \A j \in 1..Len(upload.cols) :
              output.rows[i][j] = upload.rows[i][j]

\* ------------------------------------------------------------------- C9
\* C9: generation calls are made one at a time in row order, each only
\* after every earlier call succeeded and while no answer is set; a
\* successful request has made exactly N calls, and a failed call is the last
\* one (no retry, no call for a later row).
C9_Step ==
    /\ calls' # calls =>
          /\ Len(calls') = Len(calls) + 1
          /\ SubSeq(calls', 1, Len(calls)) = calls
          /\ calls'[Len(calls')].row = Len(calls) + 1
          /\ Len(calls') <= Len(upload.rows)
          /\ \A j \in 1..Len(calls) : calls[j].ok
          /\ status = 0
    /\ status' = 200 =>
          /\ Len(calls') = Len(upload.rows)
          /\ \A j \in 1..Len(calls') : calls'[j].ok

C9_SequentialCalls == [][C9_Step]_vars

C9_Witness ==
    /\ Len(upload.rows) = 3
    /\ Len(calls) = 3
    /\ calls[1].ok /\ calls[2].ok
    /\ ~calls[3].ok
    /\ pc = "done"

====
